---- MODULE Spec2Model ----
(***************************************************************************)
(* Chatterbox TTS server (src/chatterbox_server.py): the command           *)
(* dispatcher (handle_command, handle_init, handle_generate,               *)
(* handle_shutdown), the model controller (TTSModel) and the fallback      *)
(* synthesizer (_create_test_audio), served by Flask with threaded=True.   *)
(*                                                                         *)
(* Each worker thread handles one request at a time.  A handler is cut     *)
(* into steps at its accesses to the shared globals (model, device_info,   *)
(* the TTSModel objects); everything between two such accesses is local    *)
(* to the thread and is part of one step.                                  *)
(*                                                                         *)
(* The variable last is history: it holds the request a step has just      *)
(* completed, with its response and what the handler did, and is dropped   *)
(* (Forget) before a handler takes its next step.  No handler reads it.    *)
(*                                                                         *)
(* Strings built with f-strings are modelled as sequences of their parts,  *)
(* e.g. f"Unknown command: {command}" is <<"Unknown command: ", Str(c)>>.  *)
(* Standard error is taken to be writable; standard output may break       *)
(* (closed pipe), which makes print(..., flush=True) raise.  Request       *)
(* fields have their documented JSON types (text and the paths are         *)
(* strings when present).  The output file is written and never read, so   *)
(* what a request wrote is kept with the request, not as a disk.           *)
(***************************************************************************)
EXTENDS Integers, Sequences, FiniteSets, TLC

VARIABLES
    MLX_AVAILABLE,  \* module global set by the guarded import block
    host,           \* platform.processor() / platform.machine() of the machine
    stdout_ok,      \* FALSE once standard output is a broken pipe
    model,          \* global model: 0 is None, else an index into heap
    heap,           \* the TTSModel objects created so far: their initialized flag
    device_info,    \* global device_info
    pc,             \* per worker thread: where it is in its handler
    req,            \* per worker thread: the request it is handling
    loc,            \* per worker thread: handler locals
    pendingKill,    \* detached shutdown threads sleeping before os.kill
    exited,         \* SIGTERM was delivered: signal_handler ran sys.exit(0)
    shutdownSeen,   \* a shutdown command was received (history)
    initAck,        \* the first successful init response (history)
    last            \* the request just completed, with its response (history)

vars == <<MLX_AVAILABLE, host, stdout_ok, model, heap, device_info,
          pc, req, loc, pendingKill, exited, shutdownSeen, initAck, last>>

shared == <<model, heap, device_info, pendingKill, exited>>

-----------------------------------------------------------------------------
(* Bounds *)

\* detached shutdown threads that may be pending at once
MaxShutdowns == 1

\* Two worker threads: enough for two requests to be handled concurrently
Threads == {1, 2}

-----------------------------------------------------------------------------
(* Values *)

\* Python's None / an absent JSON field
NoneVal == "<None>"

\* str(v) as the f-strings apply it
Str(v) == IF v = NoneVal THEN "None" ELSE v

Min(a, b) == IF a <= b THEN a ELSE b

Contains(msg, tok) == \E i \in 1..Len(msg) : msg[i] = tok

\* platform.processor() and platform.machine()
Hosts == { [processor |-> "arm", machine |-> "arm64"],
           [processor |-> "i386", machine |-> "x86_64"] }

\* text: absent, or a string of some length
TextLens == {0, 100, 300}
Texts == { [kind |-> "absent", len |-> 0] }
         \cup { [kind |-> "str", len |-> n] : n \in TextLens }

WritablePaths == {"out.wav"}
OutputPaths == {NoneVal, "", "out.wav", "/ro/out.wav"}

\* audio_prompt_path: absent, or a file
AudioPrompts == {NoneVal, "ref.wav"}

\* the six tuning values, as one: all defaults, or all given
Tunings == {"default", "custom"}

NoParams == [mapping |-> TRUE, text |-> [kind |-> "absent", len |-> 0],
             output_path |-> NoneVal, audio_prompt_path |-> NoneVal,
             tuning |-> "default"]

\* "parameters" absent reads as {}; "parameters": null is no mapping
Parameters ==
    { [mapping |-> TRUE, text |-> tx, output_path |-> o,
       audio_prompt_path |-> a, tuning |-> tu] :
         tx \in Texts, o \in OutputPaths, a \in AudioPrompts, tu \in Tunings }
    \cup { [NoParams EXCEPT !.mapping = FALSE] }

Commands == {"init", "generate", "shutdown", "frobnicate", NoneVal}

Request(body, c, p) == [body |-> body, command |-> c, parameters |-> p]

\* the bodies a client can post: a JSON object, or JSON that is no object
Requests ==
    { Request("object", c, NoParams) : c \in Commands \ {"generate"} }
    \cup { Request("object", "generate", p) : p \in Parameters }
    \cup { Request("array", NoneVal, NoParams) }

NoReq == Request("none", NoneVal, NoParams)

\* exception messages
AttrErrList == "'list' object has no attribute 'get'"
AttrErrNone == "'NoneType' object has no attribute 'get'"
BrokenPipe == "[Errno 32] Broken pipe"
NameErr == "name 'np' is not defined"
WriteErr == "Error opening output file"
BackendErr == "backend synthesis error"
ImportErr == "mlx_audio failed to import"
NotInitErr == "Model not initialized"

-----------------------------------------------------------------------------
(* Responses: jsonify(...) with its status code *)

Response(status, code, message, device, device_name, output_path) ==
    [status |-> status, code |-> code, message |-> message, device |-> device,
     device_name |-> device_name, output_path |-> output_path]

ErrorResponse(code, message) ==
    Response("error", code, message, NoneVal, <<>>, NoneVal)

NoResponse == Response("none", 0, <<>>, NoneVal, <<>>, NoneVal)

\* health_check: a constant payload
HealthResponse ==
    Response("success", 200, <<"Server is running">>, NoneVal, <<>>, NoneVal)

\* faulty variant: the command is not echoed
UnknownCommandResponse_NoEcho(command) == ErrorResponse(400, <<"Unknown command">>)

\* handle_command, the else branch: the command is echoed
UnknownCommandResponse(command) ==
    ErrorResponse(400, <<"Unknown command: ", Str(command)>>)

\* faulty variant: the catch-all answers with a fixed text
DispatchErrorResponse_Generic(e) == ErrorResponse(500, <<"Internal server error">>)

\* handle_command, except Exception as e: str(e)
DispatchErrorResponse(e) == ErrorResponse(500, <<e>>)

\* handle_init, initialize() returned False
InitFailedResponse == ErrorResponse(500, <<"Failed to initialize model">>)

\* handle_init, the success payload built from the global device_info
InitSuccessResponse(di) ==
    Response("success", 200, <<"Model initialized successfully">>,
             di.device, di.device_name, NoneVal)

\* faulty variant: the uninitialized session is answered like every other error
NotInitializedResponse_500 == ErrorResponse(500, <<NotInitErr>>)

\* handle_generate, model is None or not model.initialized
NotInitializedResponse == ErrorResponse(400, <<NotInitErr>>)

\* handle_generate, not text or not output_path
MissingParamsResponse ==
    ErrorResponse(400, <<"Missing required parameters: text and output_path">>)

\* handle_generate, except Exception as e
GenerationFailedResponse(msg) == ErrorResponse(500, <<"Generation failed: ">> \o msg)

\* handle_generate, jsonify(result) of generate_speech's dictionary
GenerateSuccessResponse(output_path, msg) ==
    Response("success", 200, msg, NoneVal, <<>>, output_path)

\* handle_shutdown's acknowledgment
ShutdownResponse ==
    Response("success", 200, <<"Server shutting down">>, NoneVal, <<>>, NoneVal)

-----------------------------------------------------------------------------
(* TTSModel.initialize: the Device Descriptor it assigns *)

UnknownDevice == [device |-> "unknown", device_name |-> <<"Unknown Device">>]

\* faulty variant: the names are fixed texts, without platform.machine()
DetectDevice_NoMachine(mlx, h) ==
    IF ~mlx
    THEN [device |-> "cpu", device_name |-> <<"CPU (MLX not available)">>]
    ELSE IF h.processor = "arm"
         THEN [device |-> "mps", device_name |-> <<"Apple Silicon">>]
         ELSE [device |-> "cpu", device_name |-> <<"CPU">>]

DetectDevice(mlx, h) ==
    IF ~mlx
    THEN [device |-> "cpu", device_name |-> <<"CPU (MLX not available)">>]
    ELSE IF h.processor = "arm"
         THEN [device |-> "mps",
               device_name |-> <<"Apple Silicon (", h.machine, ")">>]
         ELSE [device |-> "cpu", device_name |-> <<"CPU (", h.machine, ")">>]

-----------------------------------------------------------------------------
(* The fallback synthesizer, TTSModel._create_test_audio *)

SampleRate == 22050
MsPerChar == 50
MaxDurationMs == 10000

\* duration_seconds = min(len(text) * 0.05, 10.0), in milliseconds
DurationMs(n) == Min(n * MsPerChar, MaxDurationMs)

\* int(sample_rate * duration_seconds): the samples np.linspace produces
SampleCount(n) == (SampleRate * DurationMs(n)) \div 1000

\* what a request wrote: nothing, or a file at path with so many samples
NoFile == [path |-> NoneVal, src |-> "none", samples |-> 0]

\* truthiness of a request field ("not text", "not output_path")
TextTruthy(tx) == tx.kind = "str" /\ tx.len > 0
PathTruthy(o) == o # NoneVal /\ o # ""

\* faulty variant: the session check forgets the initialized flag
SessionReady_NoFlag(m, h) == m # 0

\* handle_generate: not (model is None or not model.initialized)
SessionReady(m, h) == m # 0 /\ h[m]

\* faulty variant: "and" for "or" in the required-field check
RequiredPresent_Either(p) == TextTruthy(p.text) \/ PathTruthy(p.output_path)

\* handle_generate: not (not text or not output_path)
RequiredPresent(p) == TextTruthy(p.text) /\ PathTruthy(p.output_path)

\* The outcome of one call: whether it raised, the exception's message, and
\* the file written so far (w before the call).  np and sf are bound only when
\* the guarded import block succeeded, so with MLX_AVAILABLE false the body
\* raises NameError before it writes; sf.write raises on an unwritable path;
\* the final print raises when standard output is broken, after the write.
CreateTestAudio(mlx, out_ok, output_path, text, w) ==
    IF ~mlx
    THEN [raised |-> TRUE, err |-> NameErr, written |-> w]
    ELSE IF output_path \notin WritablePaths
    THEN [raised |-> TRUE, err |-> WriteErr, written |-> w]
    ELSE LET f == [path |-> output_path, src |-> "fallback",
                   samples |-> SampleCount(text.len)]
         IN  IF out_ok
             THEN [raised |-> FALSE, err |-> NoneVal, written |-> f]
             ELSE [raised |-> TRUE, err |-> BrokenPipe, written |-> f]

\* The synthesis backend, tts.generate(**generation_params): external; it raises
\* or it writes the output file (it cannot succeed on an unwritable path).
BackendGenerate(raises, output_path, w) ==
    IF raises \/ output_path \notin WritablePaths
    THEN [raised |-> TRUE, err |-> BackendErr, written |-> w]
    ELSE [raised |-> FALSE, err |-> NoneVal,
          written |-> [path |-> output_path, src |-> "backend", samples |-> 0]]

-----------------------------------------------------------------------------
(* TTSModel.generate_speech *)

\* What one call did: raised (a RuntimeError left generate_speech) or returned
\* a success dictionary; msg is the exception's message or the dictionary's
\* "message" (<<>> when it has none); written is the file it left.  The rest
\* is history for the properties: calls of the backend and of the fallback,
\* whether the backend raised, how the fallback's last call ended ("none",
\* "ok", or the message of the exception it raised), and the error or
\* condition that first sent the request to the fallback.
Outcome(raised, msg, w, bk, fb, bkRaised, fbEnd, orig) ==
    [raised |-> raised, msg |-> msg, written |-> w, bk |-> bk, fb |-> fb,
     bkRaised |-> bkRaised, fbEnd |-> fbEnd, orig |-> orig]

\* the hard failure of the outer handler
HardFailure(e, fallback_error) ==
    <<"Speech generation failed: ", e, ", fallback also failed: ", fallback_error>>

\* except Exception as e: one more call of the fallback; e is whatever
\* exception reached the outer handler
OuterExcept(e, mlx, out_ok, p, w, bk, fb, bkRaised, orig) ==
    LET r == CreateTestAudio(mlx, out_ok, p.output_path, p.text, w)
    IN  IF r.raised
        THEN Outcome(TRUE, HardFailure(e, r.err), r.written,
                     bk, fb + 1, bkRaised, r.err, orig)
        ELSE Outcome(FALSE, <<"Generated test audio (error: ", e, ")">>, r.written,
                     bk, fb + 1, bkRaised, "ok", orig)

\* a call of the fallback inside the outer try: when it raises, its exception
\* is the one the outer handler receives
FallbackInTry(okMsg, mlx, out_ok, p, w, bk, bkRaised, orig) ==
    LET r == CreateTestAudio(mlx, out_ok, p.output_path, p.text, w)
    IN  IF r.raised
        THEN OuterExcept(r.err, mlx, out_ok, p, r.written, bk, 1, bkRaised, orig)
        ELSE Outcome(FALSE, okMsg, r.written, bk, 1, bkRaised, "ok", orig)

\* faulty variant: the backend's exception, after the fallback ran, leaves
\* generate_speech (a bare "raise" ending the inner handler, past the outer one)
CallBackend_Reraise(bkRaises, mlx, out_ok, p) ==
    LET b == BackendGenerate(bkRaises, p.output_path, NoFile)
        r == CreateTestAudio(mlx, out_ok, p.output_path, p.text, b.written)
    IN  IF b.raised
        THEN Outcome(TRUE, <<b.err>>, r.written, 1, 1, TRUE,
                     IF r.raised THEN r.err ELSE "ok", b.err)
        ELSE Outcome(FALSE, <<>>, b.written, 1, 0, FALSE, "none", NoneVal)

\* hasattr(tts, 'generate'): the backend call with its inner handler
CallBackend(bkRaises, mlx, out_ok, p) ==
    LET b == BackendGenerate(bkRaises, p.output_path, NoFile)
    IN  IF b.raised
        THEN FallbackInTry(<<>>, mlx, out_ok, p, b.written, 1, TRUE, b.err)
        ELSE Outcome(FALSE, <<>>, b.written, 1, 0, FALSE, "none", NoneVal)

\* imp: what "from mlx_audio import tts" does ("ok", "ImportError", or another
\* exception); hasGen: hasattr(tts, 'generate'); bkRaises: tts.generate raises
GenerateSpeech(initialized, mlx, out_ok, p, imp, hasGen, bkRaises) ==
    IF ~initialized
    THEN Outcome(TRUE, <<NotInitErr>>, NoFile, 0, 0, FALSE, "none", NoneVal)
    ELSE IF ~mlx
    THEN FallbackInTry(<<"Generated test audio (MLX not available)">>,
                       mlx, out_ok, p, NoFile, 0, FALSE, "MLX not available")
    ELSE IF imp = "ImportError"
    THEN FallbackInTry(<<"Generated test audio (mlx_audio not available)">>,
                       mlx, out_ok, p, NoFile, 0, FALSE, "mlx_audio not installed")
    ELSE IF imp = "Exception"
    THEN OuterExcept(ImportErr, mlx, out_ok, p, NoFile, 0, 0, FALSE, ImportErr)
    ELSE IF hasGen
    THEN CallBackend(bkRaises, mlx, out_ok, p)
    ELSE FallbackInTry(<<>>, mlx, out_ok, p, NoFile, 0, FALSE,
                       "no generate entry point")

ImportResults == {"ok", "ImportError", "Exception"}

-----------------------------------------------------------------------------
(* State *)

NoLoc == [calledInit |-> FALSE, self |-> 0]

NoAck == [ok |-> FALSE, device |-> NoneVal, device_name |-> <<>>]

\* history of a request in which generate_speech was not called
NoGs == [called |-> FALSE] @@ Outcome(FALSE, <<>>, NoFile, 0, 0, FALSE, "none", NoneVal)

GsOf(o) == [called |-> TRUE] @@ o

\* The request as a handler keeps it.  The tuning values and the voice
\* reference are read and passed on, and generate_speech branches on none of
\* them, so they are not kept.
Kept(p) == [p EXCEPT !.audio_prompt_path = NoneVal, !.tuning = "default"]

\* A completed request: exc is the message of the exception that reached a
\* handler's catch-all (<<>> when none did), prior says a successful init
\* response had been sent before this response, calledInit that
\* TTSModel.initialize was called for it, gs what generate_speech did.
Completed(kind, r, resp, exc, prior, calledInit, gs) ==
    [kind |-> kind, req |-> r, resp |-> resp, exc |-> exc, prior |-> prior,
     calledInit |-> calledInit, gs |-> gs]

NoLast == Completed("none", NoReq, NoResponse, <<>>, FALSE, FALSE, NoGs)

Init ==
    /\ MLX_AVAILABLE \in BOOLEAN
    /\ host \in Hosts
    /\ stdout_ok = TRUE
    /\ model = 0
    /\ heap = <<>>
    /\ device_info = UnknownDevice
    /\ pc = [t \in Threads |-> "idle"]
    /\ req = [t \in Threads |-> NoReq]
    /\ loc = [t \in Threads |-> NoLoc]
    /\ pendingKill = 0
    /\ exited = FALSE
    /\ shutdownSeen = FALSE
    /\ initAck = NoAck
    /\ last = NoLast

\* A worker thread takes a request: the first idle one (which thread serves a
\* request makes no difference to the handlers).  seq: the clients send one
\* request at a time.
CanReceive(t, seq) ==
    /\ ~exited
    /\ last = NoLast
    /\ pc[t] = "idle"
    /\ \A u \in Threads : u < t => pc[u] # "idle"
    /\ seq => \A u \in Threads : pc[u] = "idle"

Running(t, at) == ~exited /\ last = NoLast /\ pc[t] = at

\* the history of the request just completed is dropped
Forget ==
    /\ last # NoLast
    /\ last' = NoLast
    /\ UNCHANGED <<MLX_AVAILABLE, host, stdout_ok, model, heap, device_info,
                   pc, req, loc, pendingKill, exited, shutdownSeen, initAck>>

\* the handler of thread t returns resp
Respond(t, r, resp, exc, calledInit, gs) ==
    /\ pc' = [pc EXCEPT ![t] = "idle"]
    /\ req' = [req EXCEPT ![t] = NoReq]
    /\ loc' = [loc EXCEPT ![t] = NoLoc]
    /\ last' = Completed("request", r, resp, exc, initAck.ok, calledInit, gs)

\* the handler of thread t goes on at pc "at"
Goto(t, at, r, l) ==
    /\ pc' = [pc EXCEPT ![t] = at]
    /\ req' = [req EXCEPT ![t] = r]
    /\ loc' = [loc EXCEPT ![t] = l]
    /\ UNCHANGED last

env == <<MLX_AVAILABLE, host, stdout_ok>>

-----------------------------------------------------------------------------
(* health_check *)

Health(seq) ==
    /\ ~exited
    /\ last = NoLast
    /\ seq => \A u \in Threads : pc[u] = "idle"
    /\ last' = Completed("health", NoReq, HealthResponse, <<>>, initAck.ok, FALSE, NoGs)
    /\ UNCHANGED <<env, model, heap, device_info, pc, req, loc,
                   pendingKill, exited, shutdownSeen, initAck>>

-----------------------------------------------------------------------------
(* handle_command *)

\* request.get_json() is no object: data.get raises, the catch-all answers
HandleNonObject(t, seq) ==
    /\ CanReceive(t, seq)
    /\ Respond(t, Request("array", NoneVal, NoParams),
               DispatchErrorResponse(AttrErrList), <<AttrErrList>>,
               FALSE, NoGs)
    /\ UNCHANGED <<env, model, heap, device_info,
                   pendingKill, exited, shutdownSeen, initAck>>

\* the else branch: any command but init, generate, shutdown
HandleUnknown(t, seq, command) ==
    /\ CanReceive(t, seq)
    /\ command \notin {"init", "generate", "shutdown"}
    /\ Respond(t, Request("object", command, NoParams),
               UnknownCommandResponse(command), <<>>, FALSE, NoGs)
    /\ UNCHANGED <<env, model, heap, device_info,
                   pendingKill, exited, shutdownSeen, initAck>>

-----------------------------------------------------------------------------
(* handle_init and TTSModel.initialize *)

InitRequest == Request("object", "init", NoParams)

\* if model is None
InitCheckNone(t, seq) ==
    /\ CanReceive(t, seq)
    /\ Goto(t, IF model = 0 THEN "init_new" ELSE "init_chk", InitRequest,
            NoLoc)
    /\ UNCHANGED <<env, model, heap, device_info,
                   pendingKill, exited, shutdownSeen, initAck>>

\* faulty variant: creating the session puts the descriptor back to its initial
\* value
InitNew_ResetsDescriptor(t) ==
    /\ Running(t, "init_new")
    /\ heap' = Append(heap, FALSE)
    /\ model' = Len(heap) + 1
    /\ device_info' = UnknownDevice
    /\ Goto(t, "init_chk", req[t], loc[t])
    /\ UNCHANGED <<env, pendingKill, exited, shutdownSeen, initAck>>

\* model = TTSModel(): a new object, not initialized
InitNew(t) ==
    /\ Running(t, "init_new")
    /\ heap' = Append(heap, FALSE)
    /\ model' = Len(heap) + 1
    /\ Goto(t, "init_chk", req[t], loc[t])
    /\ UNCHANGED <<env, device_info, pendingKill, exited, shutdownSeen, initAck>>

\* faulty variant: initialize() is called whether or not the session is initialized
InitCheckInitialized_Always(t) ==
    /\ Running(t, "init_chk")
    /\ Goto(t, "init_call", req[t], loc[t])
    /\ UNCHANGED <<env, model, heap, device_info,
                   pendingKill, exited, shutdownSeen, initAck>>

\* if not model.initialized
InitCheckInitialized(t) ==
    /\ Running(t, "init_chk")
    /\ Goto(t, IF heap[model] THEN "init_resp" ELSE "init_call", req[t], loc[t])
    /\ UNCHANGED <<env, model, heap, device_info,
                   pendingKill, exited, shutdownSeen, initAck>>

\* model.initialize(), up to its print: device_info is assigned, then (with
\* MLX available) the print may raise, which initialize turns into False and
\* handle_init into the error response
InitDetect(t) ==
    /\ Running(t, "init_call")
    /\ device_info' = DetectDevice(MLX_AVAILABLE, host)
    /\ IF MLX_AVAILABLE /\ ~stdout_ok
       THEN Respond(t, req[t], InitFailedResponse, <<>>, TRUE, NoGs)
       ELSE Goto(t, "init_flag", req[t],
                 [loc[t] EXCEPT !.calledInit = TRUE, !.self = model])
    /\ UNCHANGED <<env, model, heap, pendingKill, exited, shutdownSeen, initAck>>

\* self.initialized = True; return True
InitSetFlag(t) ==
    /\ Running(t, "init_flag")
    /\ heap' = [heap EXCEPT ![loc[t].self] = TRUE]
    /\ Goto(t, "init_resp", req[t], loc[t])
    /\ UNCHANGED <<env, model, device_info, pendingKill, exited,
                   shutdownSeen, initAck>>

\* the success response, read from the global device_info
InitRespond(t) ==
    /\ Running(t, "init_resp")
    /\ Respond(t, req[t], InitSuccessResponse(device_info), <<>>,
               loc[t].calledInit, NoGs)
    /\ initAck' = IF initAck.ok THEN initAck
                  ELSE [ok |-> TRUE, device |-> device_info.device,
                        device_name |-> device_info.device_name]
    /\ UNCHANGED <<env, model, heap, device_info,
                   pendingKill, exited, shutdownSeen>>

-----------------------------------------------------------------------------
(* handle_generate *)

\* the session check and the required fields; parameters.get raises when
\* "parameters" is no mapping, which the handler's catch-all answers
GenerateValidate(t, seq, p) ==
    LET r == Request("object", "generate", Kept(p))
    IN  /\ CanReceive(t, seq)
        /\ IF ~SessionReady(model, heap)
           THEN Respond(t, r, NotInitializedResponse, <<>>, FALSE, NoGs)
           ELSE IF ~p.mapping
           THEN Respond(t, r, GenerationFailedResponse(<<AttrErrNone>>),
                        <<AttrErrNone>>, FALSE, NoGs)
           ELSE IF ~RequiredPresent(p)
           THEN Respond(t, r, MissingParamsResponse, <<>>, FALSE, NoGs)
           ELSE Goto(t, "gen_call", r, NoLoc)
        /\ UNCHANGED <<env, model, heap, device_info,
                       pendingKill, exited, shutdownSeen, initAck>>

\* model.generate_speech(...) on the object the global names now, and the
\* response: jsonify(result), or the catch-all's "Generation failed"
GenerateCall(t, imp, hasGen, bkRaises) ==
    LET o == GenerateSpeech(heap[model], MLX_AVAILABLE, stdout_ok,
                            req[t].parameters, imp, hasGen, bkRaises)
    IN  /\ Running(t, "gen_call")
        /\ Respond(t, req[t],
                   IF o.raised
                   THEN GenerationFailedResponse(o.msg)
                   ELSE GenerateSuccessResponse(req[t].parameters.output_path, o.msg),
                   IF o.raised THEN o.msg ELSE <<>>,
                   FALSE, GsOf(o))
        /\ UNCHANGED <<env, model, heap, device_info,
                       pendingKill, exited, shutdownSeen, initAck>>

-----------------------------------------------------------------------------
(* handle_shutdown and signal_handler *)

ShutdownRequest == Request("object", "shutdown", NoParams)

\* faulty variant: shutdown puts the descriptor back to its initial value
ShutdownStart_ResetsDescriptor(t, seq) ==
    /\ CanReceive(t, seq)
    /\ pendingKill < MaxShutdowns
    /\ shutdownSeen' = TRUE
    /\ device_info' = UnknownDevice
    /\ IF stdout_ok
       THEN /\ pendingKill' = pendingKill + 1
            /\ Goto(t, "sd_resp", ShutdownRequest, NoLoc)
       ELSE /\ UNCHANGED pendingKill
            /\ Respond(t, ShutdownRequest, DispatchErrorResponse(BrokenPipe),
                       <<BrokenPipe>>, FALSE, NoGs)
    /\ UNCHANGED <<env, model, heap, exited, initAck>>

\* print("Shutdown requested") and threading.Thread(target=shutdown).start();
\* when the print raises, handle_command's catch-all answers and no thread
\* is started
ShutdownStart(t, seq) ==
    /\ CanReceive(t, seq)
    /\ pendingKill < MaxShutdowns
    /\ shutdownSeen' = TRUE
    /\ IF stdout_ok
       THEN /\ pendingKill' = pendingKill + 1
            /\ Goto(t, "sd_resp", ShutdownRequest, NoLoc)
       ELSE /\ UNCHANGED pendingKill
            /\ Respond(t, ShutdownRequest, DispatchErrorResponse(BrokenPipe),
                       <<BrokenPipe>>, FALSE, NoGs)
    /\ UNCHANGED <<env, model, heap, device_info, exited, initAck>>

\* the acknowledgment is sent
ShutdownRespond(t) ==
    /\ Running(t, "sd_resp")
    /\ Respond(t, req[t], ShutdownResponse, <<>>, FALSE, NoGs)
    /\ UNCHANGED <<env, model, heap, device_info,
                   pendingKill, exited, shutdownSeen, initAck>>

\* a detached shutdown thread wakes from time.sleep(0.5) and sends SIGTERM;
\* signal_handler exits the process, whatever the worker threads are doing
Kill ==
    /\ ~exited
    /\ pendingKill > 0
    /\ pendingKill' = pendingKill - 1
    /\ exited' = TRUE
    /\ UNCHANGED <<env, model, heap, device_info, pc, req, loc,
                   shutdownSeen, initAck, last>>

-----------------------------------------------------------------------------
(* The environment: the reader of standard output goes away *)

BreakStdout ==
    /\ ~exited
    /\ last = NoLast
    /\ stdout_ok
    /\ stdout_ok' = FALSE
    /\ UNCHANGED <<MLX_AVAILABLE, host, model, heap, device_info, pc, req,
                   loc, pendingKill, exited, shutdownSeen, initAck, last>>

-----------------------------------------------------------------------------
(* Specifications *)

NextOf(seq) ==
    \/ Health(seq)
    \/ \E t \in Threads : HandleNonObject(t, seq)
    \/ \E t \in Threads, c \in Commands : HandleUnknown(t, seq, c)
    \/ \E t \in Threads : InitCheckNone(t, seq)
    \/ \E t \in Threads : InitNew(t)
    \/ \E t \in Threads : InitCheckInitialized(t)
    \/ \E t \in Threads : InitDetect(t)
    \/ \E t \in Threads : InitSetFlag(t)
    \/ \E t \in Threads : InitRespond(t)
    \/ \E t \in Threads, p \in Parameters : GenerateValidate(t, seq, p)
    \/ \E t \in Threads, imp \in ImportResults, hasGen \in BOOLEAN,
          bkRaises \in BOOLEAN : GenerateCall(t, imp, hasGen, bkRaises)
    \/ \E t \in Threads : ShutdownStart(t, seq)
    \/ \E t \in Threads : ShutdownRespond(t)
    \/ Kill
    \/ BreakStdout
    \/ Forget

\* requests served concurrently by worker threads (app.run(threaded=True))
Next == NextOf(FALSE)

\* the same server when its clients send one request at a time
SeqNext == NextOf(TRUE)

Spec == Init /\ [][Next]_vars

SeqSpec == Init /\ [][SeqNext]_vars

\* a worker thread that is handling a request takes its next step
Continue(t) ==
    \/ InitNew(t)
    \/ InitCheckInitialized(t)
    \/ InitDetect(t)
    \/ InitSetFlag(t)
    \/ InitRespond(t)
    \/ \E imp \in ImportResults, hasGen \in BOOLEAN, bkRaises \in BOOLEAN :
          GenerateCall(t, imp, hasGen, bkRaises)
    \/ ShutdownRespond(t)

\* the concurrent server with its threads scheduled fairly: the detached
\* shutdown thread, once started, wakes from its sleep and sends the signal,
\* and a worker thread goes on with the request it is handling; nothing
\* obliges a client to send a request
LiveSpec ==
    /\ Init
    /\ [][Next]_vars
    /\ WF_vars(Kill)
    /\ WF_vars(Forget)
    /\ \A t \in Threads : WF_vars(Continue(t))

-----------------------------------------------------------------------------
(* Properties *)

LastIs(command) ==
    /\ last.kind = "request"
    /\ last.req.body = "object"
    /\ last.req.command = command

\* the request completed last called neither the backend nor the fallback,
\* and wrote no file
NoSynthesis ==
    /\ ~last.gs.called
    /\ last.gs.bk = 0
    /\ last.gs.fb = 0
    /\ last.gs.written = NoFile

\* text or output_path is absent or empty
LacksRequired(p) ==
    \/ p.text.kind = "absent"
    \/ p.text.len = 0
    \/ p.output_path = NoneVal
    \/ p.output_path = ""

\* the step completes a request
Completes == last = NoLast /\ last'.kind = "request"

\* C1: while no init has returned success, a generate command is answered
\* with a 400 error, whatever its parameters, and neither the backend nor the
\* fallback is called and no file is written.
C1_GenerateBeforeInit ==
    (LastIs("generate") /\ ~initAck.ok)
        => /\ last.resp.status = "error"
           /\ last.resp.code = 400
           /\ NoSynthesis

\* a valid generate request rejected while the session exists, uninitialized
C1_Witness ==
    /\ LastIs("generate")
    /\ ~initAck.ok
    /\ model # 0
    /\ ~LacksRequired(last.req.parameters)
    /\ last.resp = NotInitializedResponse

\* the answer to a generate command that lacks a required field
C2_Rejected ==
    (LastIs("generate") /\ last.req.parameters.mapping
                        /\ LacksRequired(last.req.parameters))
        => /\ last.resp.status = "error"
           /\ last.resp.code = 400
           /\ NoSynthesis

\* C2: a generate command whose parameters lack text or output_path (absent
\* or empty) is answered with a 400 error in every state, whatever the other
\* parameters; nothing is synthesized and the session is left as it was.
C2_MissingFields ==
    /\ []C2_Rejected
    /\ [][(Completes /\ last'.req.command = "generate"
                     /\ LacksRequired(last'.req.parameters))
            => UNCHANGED <<model, heap, device_info>>]_vars

\* an initialized session rejects a request that has a path and no text
C2_Witness ==
    /\ LastIs("generate")
    /\ model # 0
    /\ heap[model]
    /\ last.req.parameters.text.kind = "absent"
    /\ last.req.parameters.output_path \in WritablePaths
    /\ last.resp = MissingParamsResponse

\* C3: when the backend call raised and the fallback then completed, the
\* response reports success.
C3_BackendErrorMasked ==
    (LastIs("generate") /\ last.gs.bkRaised /\ last.gs.fbEnd = "ok")
        => last.resp.status = "success"

C3_Witness ==
    /\ LastIs("generate")
    /\ last.gs.bk = 1
    /\ last.gs.bkRaised
    /\ last.gs.fbEnd = "ok"
    /\ last.resp.status = "success"

\* C4: with the backend library absent, after a successful init, a generate
\* with non-empty text and a writable path reports success and writes a file
\* of min(0.05 * len(text), 10.0) seconds at the sample rate.
C4_FallbackDuration ==
    (/\ LastIs("generate")
     /\ ~MLX_AVAILABLE
     /\ last.prior
     /\ ~LacksRequired(last.req.parameters)
     /\ last.req.parameters.output_path \in WritablePaths)
        => /\ last.resp.status = "success"
           /\ last.gs.written.path = last.req.parameters.output_path
           /\ last.gs.written.samples * 1000
                = SampleRate * Min(MsPerChar * last.req.parameters.text.len,
                                   MaxDurationMs)

\* the answer to an init that follows a successful init
C5_Answer ==
    (LastIs("init") /\ last.prior)
        => /\ last.resp.status = "success"
           /\ last.resp.device = initAck.device
           /\ last.resp.device_name = initAck.device_name
           /\ ~last.calledInit

\* C5: for clients that send one request at a time, an init after a successful
\* init answers with the device and device_name of the first, does not call
\* initialize again, and leaves the session and the descriptor unchanged.
C5_InitIdempotent ==
    /\ []C5_Answer
    /\ [][\A t \in Threads :
            (initAck.ok /\ pc'[t] # pc[t]
                /\ (req[t].command = "init" \/ req'[t].command = "init"))
              => UNCHANGED <<model, heap, device_info>>]_vars

\* a second init answered after the first one succeeded
C5_Witness ==
    /\ LastIs("init")
    /\ last.prior
    /\ last.resp.status = "success"
    /\ last.resp.device = device_info.device

\* C6: the shutdown acknowledgment is sent before the termination signal
\* is delivered: the process never exits with a shutdown response unsent.
C6_AckBeforeExit ==
    exited => \A t \in Threads : pc[t] # "sd_resp"

KnownCommands == {"init", "generate", "shutdown"}

LastIsUnknown ==
    /\ last.kind = "request"
    /\ last.req.body = "object"
    /\ last.req.command \notin KnownCommands

\* the answer to an unknown command
C7_Rejected ==
    LastIsUnknown
        => /\ last.resp.status = "error"
           /\ Contains(last.resp.message,
                       IF last.req.command = NoneVal THEN "None"
                       ELSE last.req.command)
           /\ NoSynthesis

\* C7: a command other than init, generate and shutdown (an absent one reads
\* as None) is answered with an error whose message contains the command as
\* received, and the request changes no state.
C7_UnknownCommand ==
    /\ []C7_Rejected
    /\ [][(Completes /\ last'.req.body = "object"
                     /\ last'.req.command \notin KnownCommands)
            => UNCHANGED <<model, heap, device_info, pendingKill, exited,
                           shutdownSeen, initAck>>]_vars

C7_Witness ==
    /\ LastIs("frobnicate")
    /\ last.resp.status = "error"
    /\ last.resp.message = <<"Unknown command: ", "frobnicate">>

\* a generate request turned down by handle_generate's checks
LastIsRejectedGenerate ==
    /\ LastIs("generate")
    /\ ~last.gs.called
    /\ last.exc = <<>>

\* C8, as stated: an unknown command is answered with a 400 code and every
\* other handled error with a 500 code.
C8_OnlyUnknownIs400 ==
    (last.kind = "request" /\ last.resp.status = "error")
        => last.resp.code = IF LastIsUnknown THEN 400 ELSE 500

\* C8, amended: an unknown command and a generate request turned down for an
\* uninitialized session or a missing text or output_path are answered with
\* a 400 code; every other handled error (init failure, generation failure,
\* an exception caught by a catch-all) with a 500 code.
C8_ResponseCodes ==
    (last.kind = "request" /\ last.resp.status = "error")
        => last.resp.code = IF LastIsUnknown \/ LastIsRejectedGenerate
                            THEN 400 ELSE 500

\* a failed initialization answered with a 500 code
C8_Witness ==
    /\ LastIs("init")
    /\ last.calledInit
    /\ last.resp.status = "error"
    /\ last.resp.code = 500

\* C9: every request is answered by the handlers; an exception that reaches
\* a catch-all becomes an error response carrying its message; and the
\* process has exited only after a shutdown command.
C9_NeverCrashes ==
    /\ last.kind = "request" => last.resp.status \in {"success", "error"}
    /\ (last.kind = "request" /\ last.exc # <<>>)
          => /\ last.resp.status = "error"
             /\ \A i \in 1..Len(last.exc) : Contains(last.resp.message, last.exc[i])
    /\ exited => shutdownSeen

\* a body that is no JSON object answered with the exception's message, the
\* process still serving
C9_Witness ==
    /\ last.kind = "request"
    /\ last.req.body = "array"
    /\ last.exc = <<AttrErrList>>
    /\ last.resp.status = "error"
    /\ Contains(last.resp.message, AttrErrList)
    /\ ~exited

\* C10: generate_speech raises only when the fallback raised, its message then
\* names the original error (or the condition that sent the request to the
\* fallback) and the fallback's error; and a generate request that passed
\* validation is answered with an error only in that case.
C10_HardFailure ==
    (LastIs("generate") /\ last.gs.called)
        => /\ last.gs.raised
                => /\ last.gs.fb > 0
                   /\ last.gs.fbEnd \notin {"none", "ok"}
                   /\ Contains(last.gs.msg, last.gs.orig)
                   /\ Contains(last.gs.msg, last.gs.fbEnd)
           /\ last.resp.status = "error"
                => /\ last.gs.raised
                   /\ last.gs.fbEnd \notin {"none", "ok"}

\* a generate request answered with success after the backend call raised and
\* the fallback completed
LastIsMasked ==
    /\ LastIs("generate")
    /\ last.gs.bkRaised
    /\ last.gs.fbEnd = "ok"
    /\ last.resp.status = "success"

\* C11: when a generate request succeeds through the fallback after the
\* backend call raised, the message of the success response embeds the text of
\* the backend's exception.
C11_BackendErrorInMessage ==
    LastIsMasked => Contains(last.resp.message, last.gs.orig)

\* the conditions under which generate_speech does not reach the backend call
Unavailable == {"MLX not available", "mlx_audio not installed", ImportErr,
                "no generate entry point"}

\* the message says that test audio was generated
SaysTestAudio(msg) ==
    /\ msg # <<>>
    /\ msg[1] \in {"Generated test audio (MLX not available)",
                   "Generated test audio (mlx_audio not available)",
                   "Generated test audio (error: "}

\* C12: when the backend is unavailable for a request (library absent, the
\* import of the synthesis module fails, or it has no generate entry point),
\* the output path being writable and standard output open, generate_speech
\* calls the fallback and the response reports success with a message saying
\* that test audio was generated.
C12_UnavailableBackend ==
    (/\ LastIs("generate")
     /\ last.gs.called
     /\ last.gs.orig \in Unavailable
     /\ last.req.parameters.output_path \in WritablePaths
     /\ stdout_ok)
        => /\ last.gs.bk = 0
           /\ last.gs.fb >= 1
           /\ last.resp.status = "success"
           /\ SaysTestAudio(last.resp.message)

\* C13: for every generate request, the backend is called at most once and
\* the fallback synthesizer at most once, also when the fallback raises.
C13_NoRetry ==
    LastIs("generate") => (last.gs.bk <= 1 /\ last.gs.fb <= 1)

\* thread t takes a step of handle_init
InitStep(t) ==
    /\ pc'[t] # pc[t]
    /\ (req[t].command = "init" \/ req'[t].command = "init")

\* after the first successful init response the descriptor is the one it
\* reported
C14_DescriptorKept ==
    initAck.ok => /\ device_info.device = initAck.device
                  /\ device_info.device_name = initAck.device_name

\* C14: the session and the descriptor are written only by init (every step
\* that is no step of handle_init, i.e. of generate, shutdown, an unknown
\* command, the health check or the shutdown thread, leaves them unchanged),
\* and after the first successful init response the descriptor never changes.
C14_WrittenOnlyByInit ==
    /\ [][(~ \E t \in Threads : InitStep(t))
            => UNCHANGED <<model, heap, device_info>>]_vars
    /\ [][initAck.ok => device_info' = device_info]_vars
    /\ []C14_DescriptorKept

\* an init that ran the detection again after another init had answered
\* success, the descriptor still the one first reported
C14_Witness ==
    /\ LastIs("init")
    /\ last.prior
    /\ last.calledInit
    /\ device_info.device = initAck.device
    /\ device_info.device_name = initAck.device_name

\* the step is a call of initialize() that fails: handle_init answers with
\* an error
FailedInit ==
    /\ Completes
    /\ last'.req.command = "init"
    /\ last'.calledInit
    /\ last'.resp.status = "error"

\* C15: a failed initialization changes no state: the session (its existence
\* and its initialized flag, still false) and the descriptor are after the
\* call what they were before it.
C15_FailedInitNoChange ==
    [][FailedInit => /\ UNCHANGED <<model, heap, device_info>>
                     /\ model # 0
                     /\ ~heap[model]]_vars

\* no call of initialize() can have failed: it fails only when its print
\* raises, which takes the backend library and a broken standard output
NoInitFailure == stdout_ok \/ ~MLX_AVAILABLE

\* no request is being handled
Quiescent == \A t \in Threads : pc[t] = "idle"

NotBlocked ==
    (~exited /\ last = NoLast)
        => /\ \A t \in Threads : pc[t] = "sd_resp" => ENABLED ShutdownRespond(t)
           /\ (\E t \in Threads : pc[t] = "idle") => ENABLED Health(FALSE)

\* C17: with the detached shutdown thread scheduled fairly, every shutdown
\* command is followed by the exit of the process, and until the signal is
\* delivered the acknowledgment and other requests are not held back by the
\* grace delay.
C17_ShutdownTerminates ==
    /\ shutdownSeen ~> exited
    /\ []NotBlocked

\* some call of initialize() has succeeded
SomeInitialized == \E i \in 1..Len(heap) : heap[i]

\* an Apple Silicon processor: platform.processor() == 'arm'
Accelerated == host.processor = "arm"

\* C18, as stated: after a successful initialize() the device is the
\* accelerated one on an Apple Silicon processor and cpu otherwise, and the
\* device_name includes platform.machine(), whether or not the backend
\* library is present.
C18_DescriptorAlways ==
    SomeInitialized
        => /\ device_info.device = IF Accelerated THEN "mps" ELSE "cpu"
           /\ Contains(device_info.device_name, host.machine)

\* C18, amended: after a successful initialize(), with the backend library
\* present the device is the accelerated one on an Apple Silicon processor and
\* cpu otherwise and the device_name includes platform.machine(); with the
\* library absent the device is cpu and the device_name is the fixed text
\* "CPU (MLX not available)".
C18_Descriptor ==
    SomeInitialized
        => IF MLX_AVAILABLE
           THEN /\ device_info.device = IF Accelerated THEN "mps" ELSE "cpu"
                /\ Contains(device_info.device_name, host.machine)
           ELSE /\ device_info.device = "cpu"
                /\ device_info.device_name = <<"CPU (MLX not available)">>

\* an init answered with the accelerated device and the machine in its name
C18_Witness ==
    /\ LastIs("init")
    /\ last.calledInit
    /\ last.resp.status = "success"
    /\ MLX_AVAILABLE
    /\ Accelerated
    /\ last.resp.device = "mps"
    /\ Contains(last.resp.device_name, host.machine)

\* C19: in every interleaving, a generate request with text and output_path
\* that starts after an init response has reported success is not rejected
\* with "Model not initialized".
C19_InitMonotonic ==
    (/\ LastIs("generate")
     /\ last.prior
     /\ last.req.parameters.mapping
     /\ ~LacksRequired(last.req.parameters))
        => last.resp # NotInitializedResponse

====
